---- MODULE Spec2Model ----
(***************************************************************************)
(* Model of src/src/main.cpp: the sequential setup of SDL and Vulkan, the  *)
(* event loop and the teardown.  The program is a single thread; the       *)
(* windowing library, the driver, the console input and the event source   *)
(* are the environment, whose answers are chosen nondeterministically at   *)
(* the call that asks for them.  A local variable of a function holds its  *)
(* value until the function returns.                                       *)
(***************************************************************************)
EXTENDS Integers, Sequences, FiniteSets, TLC

\* ------------------------------------------------------------------ bounds
MaxLayers == 2      \* layers the driver reports
MaxDevices == 2     \* physical devices the driver reports
MaxFamilies == 2    \* queue families of one physical device
MaxEvents == 2      \* events delivered during one run
UIntBits == 16      \* width of unsigned int, scaled down to fit TLC's 32-bit integers

\* --------------------------------------------------------------- constants
UIntModulus == 2 ^ UIntBits

ToUnsigned(x) == x % UIntModulus

NULL == "NULL"
GARBAGE == "GARBAGE"

\* an automatic variable nothing was stored in yet
UNINIT == "UNINIT"

\* what reading such a variable can give
IndeterminateHandles == {NULL, GARBAGE}

LayerNames ==
    {"VK_LAYER_NV_optimus", "VK_LAYER_LUNARG_standard_validation", "VK_LAYER_RENDERDOC_Capture"}

\* the instance extensions SDL names for the platform's window system
SdlExtensions == <<"VK_KHR_surface", "VK_KHR_xcb_surface">>

EventTypes == {"SDL_QUIT", "SDL_KEYDOWN"}

VkResults == {"VK_SUCCESS", "VK_INCOMPLETE", "VK_ERROR_OUT_OF_HOST_MEMORY"}

InstanceResults == {"VK_SUCCESS", "VK_ERROR_INCOMPATIBLE_DRIVER", "VK_ERROR_EXTENSION_NOT_PRESENT"}

SeqsUpTo(S, n) == UNION {[1..k -> S] : k \in 0..n}

QueueFamilyProperties == [queueCount : {0, 1}, graphics : BOOLEAN]

\* the functions that return bool to main
BoolStages ==
    {"initSDL", "getAvailableVulkanExtensions", "getAvailableVulkanLayers",
     "createVulkanInstance", "setupDebugCallback", "selectGPU", "createLogicalDevice"}

\* ------------------------------------------------------------------- state
VARIABLES
    pc,                  \* position of main
    exitStatus,          \* {} while main runs, {r} once main returned r
    out,                 \* warnings and error lines written to std::cout
    started,             \* the stages entered so far, in order
    returned,            \* result of each bool stage: "pending", "true", "false"
    calls,               \* create/destroy calls made to SDL and the driver, in order
    window,              \* main: SDL_Window* window
    found_extensions,    \* main: found_extensions
    found_layers,        \* main: found_layers
    instance_layer_names, \* getAvailableVulkanLayers: instance_layer_names
    instance,            \* main: VkInstance instance
    debugReportExt,      \* driver: vkGetInstanceProcAddr resolves the debug report entry points
    callback,            \* main: VkDebugReportCallbackEXT callback
    physical_device_count, \* selectGPU: physical_device_count
    selection_id,        \* selectGPU: selection_id
    prompted,            \* selectGPU: "select device: " was printed
    cinFail,             \* std::cin has failbit set
    queue_properties,    \* selectGPU: queue_properties
    graphics_queue_index, \* main: graphics_queue_index
    device,              \* main: VkDevice device
    run,                 \* main: run
    queue,               \* SDL event queue
    polled               \* events SDL_PollEvent handed to main, in order

vars ==
    <<pc, exitStatus, out, started, returned, calls, window, found_extensions,
      found_layers, instance_layer_names, instance, debugReportExt, callback,
      physical_device_count, selection_id, prompted, cinFail, queue_properties,
      graphics_queue_index, device, run, queue, polled>>

setupVars ==
    <<window, found_extensions, found_layers, instance_layer_names, instance,
      debugReportExt, callback, physical_device_count, selection_id, prompted,
      cinFail, queue_properties, graphics_queue_index, device>>

loopVars == <<run, queue, polled>>

Call(fn, handle, ok, layers) == [fn |-> fn, handle |-> handle, ok |-> ok, layers |-> layers]

Init ==
    /\ pc = "initSDL"
    /\ exitStatus = {}
    /\ out = {}
    /\ started = <<>>
    /\ returned = [s \in BoolStages |-> "pending"]
    /\ calls = <<>>
    /\ window = UNINIT
    /\ found_extensions = <<>>
    /\ found_layers = <<>>
    /\ instance_layer_names = <<>>
    /\ instance = UNINIT
    /\ debugReportExt = FALSE
    /\ callback = UNINIT
    /\ physical_device_count = 0
    /\ selection_id = 0
    /\ prompted = FALSE
    /\ cinFail = FALSE
    /\ queue_properties = <<>>
    /\ graphics_queue_index = ToUnsigned(-1)
    /\ device = UNINIT
    /\ run = FALSE
    /\ queue = <<>>
    /\ polled = <<>>

\* ------------------------------------------------------ main's return paths
\* a bug main does not have: every failure returns the first stage's status
ReturnFailureSameStatus(stage, msg, status) ==
    /\ pc' = "done"
    /\ exitStatus' = {-1}
    /\ out' = out \cup {msg}
    /\ returned' = [returned EXCEPT ![stage] = "false"]

\* a checked stage returned false after printing msg: main returns status
ReturnFailure(stage, msg, status) ==
    /\ pc' = "done"
    /\ exitStatus' = {status}
    /\ out' = out \cup {msg}
    /\ returned' = [returned EXCEPT ![stage] = "false"]

\* a checked stage returned true: main goes on with the next statement
Proceed(stage, next) ==
    /\ pc' = next
    /\ exitStatus' = exitStatus
    /\ returned' = [returned EXCEPT ![stage] = "true"]

\* ----------------------------------------------------------------- initSDL
InitSDL ==
    /\ pc = "initSDL"
    /\ started' = Append(started, "initSDL")
    /\ \E ok \in BOOLEAN :
        /\ calls' = Append(calls, Call("SDL_Init", "SDL", ok, <<>>))
        /\ IF ok
           THEN Proceed("initSDL", "createWindow") /\ out' = out
           ELSE ReturnFailure("initSDL", "Unable to initialize SDL", -1)
    /\ UNCHANGED <<setupVars, loopVars>>

\* ------------------------------------------------------------ createWindow
\* SDL_CreateWindow gives NULL when it fails; main stores what it gets
CreateWindow ==
    /\ pc = "createWindow"
    /\ started' = Append(started, "createWindow")
    /\ \E w \in {NULL, "window"} :
        /\ window' = w
        /\ calls' = Append(calls, Call("SDL_CreateWindow", w, w # NULL, <<>>))
    /\ pc' = "getAvailableVulkanExtensions"
    /\ UNCHANGED <<exitStatus, out, returned, found_extensions, found_layers,
                   instance_layer_names, instance, debugReportExt, callback,
                   physical_device_count, selection_id, prompted, cinFail,
                   queue_properties, graphics_queue_index, device, loopVars>>

\* ------------------------------------------------ getAvailableVulkanExtensions
GetAvailableVulkanExtensions ==
    /\ pc = "getAvailableVulkanExtensions"
    /\ started' = Append(started, "getAvailableVulkanExtensions")
    /\ \E countOk \in BOOLEAN, namesOk \in BOOLEAN :
        IF ~countOk
        THEN /\ ReturnFailure("getAvailableVulkanExtensions",
                              "Unable to query the number of Vulkan instance extensions", -2)
             /\ found_extensions' = found_extensions
        ELSE IF ~namesOk
        THEN /\ ReturnFailure("getAvailableVulkanExtensions",
                              "Unable to query the number of Vulkan instance extension names", -2)
             /\ found_extensions' = found_extensions
        ELSE /\ Proceed("getAvailableVulkanExtensions", "getAvailableVulkanLayers")
             /\ found_extensions' = Append(found_extensions \o SdlExtensions, "VK_EXT_debug_report")
             /\ out' = out
    /\ UNCHANGED <<calls, window, found_layers, instance_layer_names, instance,
                   debugReportExt, callback, physical_device_count, selection_id,
                   prompted, cinFail, queue_properties, graphics_queue_index,
                   device, loopVars>>

\* --------------------------------------------------- getRequestedLayerNames
getRequestedLayerNames == {"VK_LAYER_NV_optimus", "VK_LAYER_LUNARG_standard_validation"}

\* the loop of getAvailableVulkanLayers: the requested names among the reported
\* ones, appended in the order the driver reported them
RECURSIVE FilterLayers(_)
FilterLayers(names) ==
    IF names = <<>>
    THEN <<>>
    ELSE LET rest == FilterLayers(SubSeq(names, 1, Len(names) - 1))
             name == names[Len(names)]
         IN  IF name \in getRequestedLayerNames THEN Append(rest, name) ELSE rest

\* main's test for the warning: the two sizes differ
LayersMissing(found) == Len(found) # Cardinality(getRequestedLayerNames)

\* -------------------------------------------------- getAvailableVulkanLayers
\* first part: the two vkEnumerateInstanceLayerProperties calls
EnumerateLayers ==
    /\ pc = "getAvailableVulkanLayers"
    /\ started' = Append(started, "getAvailableVulkanLayers")
    /\ \E countRes \in VkResults, namesRes \in VkResults,
          names \in SeqsUpTo(LayerNames, MaxLayers) :
        IF countRes # "VK_SUCCESS"
        THEN /\ ReturnFailure("getAvailableVulkanLayers",
                              "unable to query vulkan instance layer property count", -3)
             /\ instance_layer_names' = instance_layer_names
        ELSE IF namesRes # "VK_SUCCESS"
        THEN /\ ReturnFailure("getAvailableVulkanLayers",
                              "unable to retrieve vulkan instance layer names", -3)
             /\ instance_layer_names' = instance_layer_names
        ELSE /\ pc' = "filterLayers"
             /\ instance_layer_names' = names
             /\ UNCHANGED <<exitStatus, out, returned>>
    /\ UNCHANGED <<calls, window, found_extensions, found_layers, instance,
                   debugReportExt, callback, physical_device_count, selection_id,
                   prompted, cinFail, queue_properties, graphics_queue_index,
                   device, loopVars>>

\* second part: the filter loop, the return, and main's warning
GetAvailableVulkanLayers ==
    /\ pc = "filterLayers"
    /\ Proceed("getAvailableVulkanLayers", "createVulkanInstance")
    /\ found_layers' = FilterLayers(instance_layer_names)
    /\ instance_layer_names' = <<>>
    /\ out' = IF LayersMissing(found_layers')
              THEN out \cup {"warning! not all requested layers could be found!"}
              ELSE out
    /\ UNCHANGED <<started, calls, window, found_extensions, instance,
                   debugReportExt, callback, physical_device_count, selection_id,
                   prompted, cinFail, queue_properties, graphics_queue_index,
                   device, loopVars>>

\* ------------------------------------------------------ createVulkanInstance
CreateVulkanInstance ==
    /\ pc = "createVulkanInstance"
    /\ started' = Append(started, "createVulkanInstance")
    /\ \E res \in InstanceResults, ext \in BOOLEAN :
        /\ calls' = Append(calls, Call("vkCreateInstance",
                                       IF res = "VK_SUCCESS" THEN "instance" ELSE NULL,
                                       res = "VK_SUCCESS", found_layers))
        /\ IF res = "VK_SUCCESS"
           THEN /\ Proceed("createVulkanInstance", "setupDebugCallback")
                /\ instance' = "instance"
                /\ debugReportExt' = ext
                /\ out' = out
           ELSE /\ ReturnFailure("createVulkanInstance",
                                 IF res = "VK_ERROR_INCOMPATIBLE_DRIVER"
                                 THEN "unable to create vulkan instance, cannot find a compatible Vulkan ICD"
                                 ELSE "unable to create Vulkan instance: unknown error", -4)
                /\ UNCHANGED <<instance, debugReportExt>>
    /\ UNCHANGED <<window, found_extensions, found_layers, instance_layer_names,
                   callback, physical_device_count, selection_id, prompted, cinFail,
                   queue_properties, graphics_queue_index, device, loopVars>>

\* -------------------------------------------------- createDebugReportCallbackEXT
\* VK_ERROR_EXTENSION_NOT_PRESENT without the entry point, the driver's result with it
DebugCallbackResults ==
    IF debugReportExt
    THEN {"VK_SUCCESS", "VK_ERROR_OUT_OF_HOST_MEMORY"}
    ELSE {"VK_ERROR_EXTENSION_NOT_PRESENT"}

\* a bug main does not have: the result of setupDebugCallback checked like the others
AfterDebugCallbackChecked(ok) ==
    /\ pc' = IF ok THEN "selectGPU" ELSE "done"
    /\ exitStatus' = IF ok THEN exitStatus ELSE {-5}

\* what main does with the result of setupDebugCallback: nothing
AfterDebugCallback(ok) ==
    /\ pc' = "selectGPU"
    /\ exitStatus' = exitStatus

\* -------------------------------------------------------- setupDebugCallback
SetupDebugCallback ==
    /\ pc = "setupDebugCallback"
    /\ started' = Append(started, "setupDebugCallback")
    /\ \E res \in DebugCallbackResults :
        /\ AfterDebugCallback(res = "VK_SUCCESS")
        /\ IF res = "VK_SUCCESS"
           THEN /\ callback' = "callback"
                /\ out' = out
                /\ returned' = [returned EXCEPT !["setupDebugCallback"] = "true"]
                /\ calls' = Append(calls, Call("vkCreateDebugReportCallbackEXT", "callback", TRUE, <<>>))
           ELSE /\ callback' = callback
                /\ out' = out \cup {"unable to create debug report callback extension"}
                /\ returned' = [returned EXCEPT !["setupDebugCallback"] = "false"]
                /\ calls' = IF debugReportExt
                            THEN Append(calls, Call("vkCreateDebugReportCallbackEXT", NULL, FALSE, <<>>))
                            ELSE calls
    /\ UNCHANGED <<window, found_extensions, found_layers, instance_layer_names,
                   instance, debugReportExt, physical_device_count, selection_id,
                   prompted, cinFail, queue_properties, graphics_queue_index, device,
                   loopVars>>

\* ------------------------------------------------------------------ selectGPU
\* what one "std::cin >> selection_id" can meet: a number that fits, a number too
\* large for unsigned int, text that is no number, or the end of the input
InputTokens ==
    [kind : {"number"}, value : 0..MaxDevices]
        \cup [kind : {"overflow", "text", "eof"}, value : {0}]

\* selection_id after the extraction
ReadValue(token, old) ==
    IF token.kind = "overflow" THEN ToUnsigned(-1)
    ELSE IF token.kind = "text" THEN 0
    ELSE IF token.kind = "eof" THEN old
    ELSE token.value

\* a bug the test does not have: the device count itself accepted
InvalidSelectionOffByOne(sel, count) == sel > count \/ sel < 0

\* the test that repeats the prompt; selection_id is unsigned
InvalidSelection(sel, count) == sel >= count \/ sel < 0

\* first part: enumerate the devices, list them
SelectGPUEnumerate ==
    /\ pc = "selectGPU"
    /\ started' = Append(started, "selectGPU")
    /\ \E count \in 0..MaxDevices :
        /\ physical_device_count' = count
        /\ IF count = 0
           THEN ReturnFailure("selectGPU", "No physical devices found", -5)
           ELSE /\ pc' = IF count > 1 THEN "selectPrompt" ELSE "selectQueues"
                /\ UNCHANGED <<exitStatus, out, returned>>
    /\ selection_id' = 0
    /\ UNCHANGED <<calls, window, found_extensions, found_layers, instance_layer_names,
                   instance, debugReportExt, callback, prompted, cinFail,
                   queue_properties, graphics_queue_index, device, loopVars>>

\* one round of the while (true) loop: prompt, read, test
SelectGPUPrompt ==
    /\ pc = "selectPrompt"
    /\ prompted' = TRUE
    /\ \E token \in InputTokens :
        IF cinFail
        THEN UNCHANGED <<selection_id, cinFail>>
        ELSE /\ selection_id' = ReadValue(token, selection_id)
             /\ cinFail' = (token.kind # "number")
    /\ IF InvalidSelection(selection_id', physical_device_count)
       THEN /\ out' = out \cup {"invalid selection"}
            /\ pc' = "selectPrompt"
       ELSE /\ out' = out
            /\ pc' = "selectQueues"
    /\ UNCHANGED <<exitStatus, started, returned, calls, window, found_extensions,
                   found_layers, instance_layer_names, instance, debugReportExt,
                   callback, physical_device_count, queue_properties,
                   graphics_queue_index, device, loopVars>>

\* the queue families the driver reports for the selected device
SelectGPUQueues ==
    /\ pc = "selectQueues"
    /\ \E props \in SeqsUpTo(QueueFamilyProperties, MaxFamilies) :
        IF Len(props) = 0
        THEN /\ ReturnFailure("selectGPU", "device has no family of queues associated with it", -5)
             /\ queue_properties' = queue_properties
        ELSE /\ pc' = "selectSearch"
             /\ queue_properties' = props
             /\ UNCHANGED <<exitStatus, out, returned>>
    /\ UNCHANGED <<started, calls, window, found_extensions, found_layers,
                   instance_layer_names, instance, debugReportExt, callback,
                   physical_device_count, selection_id, prompted, cinFail,
                   graphics_queue_index, device, loopVars>>

\* the search for a queue family that takes graphics commands, from family i on;
\* queue_node_index is an unsigned int that starts as -1
RECURSIVE FindGraphicsQueue(_, _)
FindGraphicsQueue(props, i) ==
    IF i >= Len(props)
    THEN ToUnsigned(-1)
    ELSE IF props[i + 1].queueCount > 0 /\ props[i + 1].graphics
    THEN i
    ELSE FindGraphicsQueue(props, i + 1)

\* the test after the search, on the unsigned index
QueueNotFound(queue_node_index) == queue_node_index < 0

\* last part: the search, the test, the output variables, the return
SelectGPUSearch ==
    /\ pc = "selectSearch"
    /\ IF QueueNotFound(FindGraphicsQueue(queue_properties, 0))
       THEN /\ ReturnFailure("selectGPU",
                             "Unable to find a queue command family that accepts graphics commands", -5)
            /\ graphics_queue_index' = graphics_queue_index
       ELSE /\ Proceed("selectGPU", "createLogicalDevice")
            /\ out' = out
            /\ graphics_queue_index' = FindGraphicsQueue(queue_properties, 0)
    /\ queue_properties' = <<>>
    /\ UNCHANGED <<started, calls, window, found_extensions, found_layers,
                   instance_layer_names, instance, debugReportExt, callback,
                   physical_device_count, selection_id, prompted, cinFail, device,
                   loopVars>>

\* ------------------------------------------------------- createLogicalDevice
CreateLogicalDevice ==
    /\ pc = "createLogicalDevice"
    /\ started' = Append(started, "createLogicalDevice")
    /\ \E res \in {"VK_SUCCESS", "VK_ERROR_INITIALIZATION_FAILED"} :
        /\ calls' = Append(calls, Call("vkCreateDevice",
                                       IF res = "VK_SUCCESS" THEN "device" ELSE NULL,
                                       res = "VK_SUCCESS", found_layers))
        /\ IF res = "VK_SUCCESS"
           THEN /\ Proceed("createLogicalDevice", "eventLoop")
                /\ device' = "device"
                /\ out' = out
           ELSE /\ ReturnFailure("createLogicalDevice", "failed to create logical device!", -6)
                /\ device' = device
    /\ UNCHANGED <<window, found_extensions, found_layers, instance_layer_names,
                   instance, debugReportExt, callback, physical_device_count,
                   selection_id, prompted, cinFail, queue_properties,
                   graphics_queue_index, loopVars>>

\* ---------------------------------------------------------------- event loop
\* bool run = true
EnterEventLoop ==
    /\ pc = "eventLoop"
    /\ started' = Append(started, "eventLoop")
    /\ run' = TRUE
    /\ pc' = "while"
    /\ UNCHANGED <<exitStatus, out, returned, calls, setupVars, queue, polled>>

\* while (run)
WhileRun ==
    /\ pc = "while"
    /\ pc' = IF run THEN "poll" ELSE "quit"
    /\ UNCHANGED <<exitStatus, out, started, returned, calls, setupVars, loopVars>>

\* a bug the loop does not have: any event ends it
IsQuitAnyEvent(type) == type \in EventTypes

\* the event that ends the outer loop
IsQuit(type) == type = "SDL_QUIT"

\* while (SDL_PollEvent(&event)) and its body
PollEvent ==
    /\ pc = "poll"
    /\ IF queue = <<>>
       THEN /\ pc' = "while"
            /\ UNCHANGED loopVars
       ELSE /\ pc' = "poll"
            /\ queue' = Tail(queue)
            /\ polled' = Append(polled, Head(queue))
            /\ run' = IF IsQuit(Head(queue)) THEN FALSE ELSE run
    /\ UNCHANGED <<exitStatus, out, started, returned, calls, setupVars>>

\* ---------------------------------------------------------------------- quit
\* the calls of quit, in the order it makes them, cb being what reading callback
\* gave; the callback is destroyed through the entry point vkGetInstanceProcAddr
\* resolves, when it resolves one
QuitCalls(cb) ==
    <<Call("SDL_Quit", "SDL", TRUE, <<>>),
      Call("vkDestroyDevice", device, TRUE, <<>>)>>
    \o (IF debugReportExt
        THEN <<Call("vkDestroyDebugReportCallbackEXT", cb, TRUE, <<>>)>>
        ELSE <<>>)
    \o <<Call("vkDestroyInstance", instance, TRUE, <<>>)>>

\* quit(instance, device, callback); return 1
Quit ==
    /\ pc = "quit"
    /\ started' = Append(started, "quit")
    /\ \E cb \in (IF callback = UNINIT THEN IndeterminateHandles ELSE {callback}) :
        calls' = calls \o QuitCalls(cb)
    /\ pc' = "done"
    /\ exitStatus' = {1}
    /\ UNCHANGED <<out, returned, setupVars, loopVars>>

\* --------------------------------------------------------------- environment
\* the platform queues an event; the program sees the queue only through
\* SDL_PollEvent, so events queued during setup are the ones pending at eventLoop
PostEvent ==
    /\ pc \in {"eventLoop", "while", "poll"}
    /\ Len(queue) + Len(polled) < MaxEvents
    /\ \E type \in EventTypes : queue' = Append(queue, type)
    /\ UNCHANGED <<pc, exitStatus, out, started, returned, calls, setupVars, run, polled>>

\* ------------------------------------------------------------- specification
MainStep ==
    \/ InitSDL
    \/ CreateWindow
    \/ GetAvailableVulkanExtensions
    \/ EnumerateLayers
    \/ GetAvailableVulkanLayers
    \/ CreateVulkanInstance
    \/ SetupDebugCallback
    \/ SelectGPUEnumerate
    \/ SelectGPUPrompt
    \/ SelectGPUQueues
    \/ SelectGPUSearch
    \/ CreateLogicalDevice
    \/ EnterEventLoop
    \/ WhileRun
    \/ PollEvent
    \/ Quit

Next == MainStep \/ PostEvent

Spec == Init /\ [][Next]_vars

\* main is one running thread: a step it can take, it takes
LiveSpec == Init /\ [][Next]_vars /\ WF_vars(MainStep)

\* ================================================================== claims
Range(s) == {s[i] : i \in DOMAIN s}

Min(S) == CHOOSE x \in S : \A y \in S : x <= y

\* positions in calls of the calls of fn, and of those that succeeded
CallsOf(fn) == {i \in DOMAIN calls : calls[i].fn = fn}

Succeeded(fn) == {i \in CallsOf(fn) : calls[i].ok}

StageOrder ==
    <<"initSDL", "createWindow", "getAvailableVulkanExtensions",
      "getAvailableVulkanLayers", "createVulkanInstance", "setupDebugCallback",
      "selectGPU", "createLogicalDevice", "eventLoop", "quit">>

\* stage s has completed successfully; the debug callback only has to be attempted
StageSucceeded(s) ==
    CASE s = "createWindow" -> window = "window"
      [] s = "setupDebugCallback" -> returned[s] # "pending"
      [] s = "eventLoop" -> "eventLoop" \in Range(started) /\ pc \in {"quit", "done"}
      [] s = "quit" -> pc = "done" /\ exitStatus = {1}
      [] OTHER -> returned[s] = "true"

\* C1: the stages start in the fixed order, each at most once, and a stage starts
\* only when every stage before it has completed successfully (the debug callback
\* registration only attempted)
C1_StageOrder ==
    /\ Len(started) <= Len(StageOrder)
    /\ \A i \in DOMAIN started :
        /\ started[i] = StageOrder[i]
        /\ \A j \in 1..(i - 1) : StageSucceeded(StageOrder[j])

\* the stages whose result main checks, with the status main returns for each
CheckedStatus ==
    [initSDL |-> -1, getAvailableVulkanExtensions |-> -2, getAvailableVulkanLayers |-> -3,
     createVulkanInstance |-> -4, selectGPU |-> -5, createLogicalDevice |-> -6]

FailureMessages ==
    [initSDL |-> {"Unable to initialize SDL"},
     getAvailableVulkanExtensions |->
        {"Unable to query the number of Vulkan instance extensions",
         "Unable to query the number of Vulkan instance extension names"},
     getAvailableVulkanLayers |->
        {"unable to query vulkan instance layer property count",
         "unable to retrieve vulkan instance layer names"},
     createVulkanInstance |->
        {"unable to create vulkan instance, cannot find a compatible Vulkan ICD",
         "unable to create Vulkan instance: unknown error"},
     selectGPU |->
        {"No physical devices found",
         "device has no family of queues associated with it",
         "Unable to find a queue command family that accepts graphics commands"},
     createLogicalDevice |-> {"failed to create logical device!"}]

\* C2: when a checked stage fails, its message is printed, main has returned that
\* stage's status, and the failed stage is the last one that was started; main
\* returns a negative status only for the stage that failed
C2_FailureExit ==
    \A s \in DOMAIN CheckedStatus :
        /\ returned[s] = "false" =>
            /\ pc = "done"
            /\ exitStatus = {CheckedStatus[s]}
            /\ FailureMessages[s] \cap out # {}
            /\ started[Len(started)] = s
            /\ "eventLoop" \notin Range(started)
        /\ exitStatus = {CheckedStatus[s]} => returned[s] = "false"

C2_Witness ==
    /\ pc = "done"
    /\ exitStatus = {-6}
    /\ returned["createLogicalDevice"] = "false"
    /\ "failed to create logical device!" \in out

\* the create call and the destroy call of each resource
ResourcePairs ==
    {<<"SDL_Init", "SDL_Quit">>,
     <<"vkCreateInstance", "vkDestroyInstance">>,
     <<"vkCreateDebugReportCallbackEXT", "vkDestroyDebugReportCallbackEXT">>,
     <<"vkCreateDevice", "vkDestroyDevice">>}

\* C3: whenever main has terminated, every resource created in the run has been
\* destroyed exactly once and nothing that was never created has been destroyed
C3_SymmetricTeardown ==
    pc = "done" =>
        \A p \in ResourcePairs :
            Cardinality(CallsOf(p[2])) = Cardinality(Succeeded(p[1]))

QuitPolled == "SDL_QUIT" \in Range(polled)

\* C4: after setup the program stays in the event loop until SDL_QUIT was polled;
\* quit is not reached without it; an event that is not SDL_QUIT leaves run alone;
\* the inner loop is left only with the queue empty; and once SDL_QUIT was polled
\* the program reaches teardown and terminates with status 1
C4_EventLoop ==
    /\ [](returned["createLogicalDevice"] = "true" /\ ~QuitPolled
            => pc \in {"eventLoop", "while", "poll"})
    /\ []("quit" \in Range(started) \/ pc = "quit" => QuitPolled)
    /\ [][pc = "poll" /\ polled' # polled /\ Head(queue) # "SDL_QUIT"
            => run' = run /\ pc' = "poll"]_vars
    /\ [][pc = "poll" /\ pc' # "poll" => queue = <<>>]_vars
    /\ (QuitPolled ~> (pc = "done" /\ exitStatus = {1}))

C4_Witness ==
    /\ pc = "done"
    /\ exitStatus = {1}
    /\ polled = <<"SDL_KEYDOWN", "SDL_QUIT">>

\* C5: when setupDebugCallback fails its message is printed and main goes on to
\* selectGPU: it has not terminated at that stage, and where it terminates later
\* it does so with the status of a later stage or of the normal exit
C5_DebugCallbackOptional ==
    returned["setupDebugCallback"] = "false" =>
        /\ "unable to create debug report callback extension" \in out
        /\ pc = "selectGPU" \/ "selectGPU" \in Range(started)
        /\ pc = "done" => exitStatus \in {{-5}, {-6}, {1}} /\ "selectGPU" \in Range(started)

C5_Witness ==
    /\ returned["setupDebugCallback"] = "false"
    /\ returned["createLogicalDevice"] = "true"
    /\ pc = "poll"

\* the selection loop of selectGPU is over
SelectionMade ==
    /\ "selectGPU" \in Range(started)
    /\ physical_device_count > 0
    /\ pc # "selectPrompt"

\* C6: with no device selectGPU fails; with one device index 0 is taken without a
\* prompt; the prompt loop is still running after an entry only if the entry is not
\* below the device count; and the selection handed on is below the device count
C6_Selection ==
    /\ "selectGPU" \in Range(started) /\ physical_device_count = 0
        => returned["selectGPU"] = "false" /\ exitStatus = {-5}
    /\ physical_device_count = 1 => selection_id = 0 /\ ~prompted
    /\ pc = "selectPrompt" /\ prompted => selection_id >= physical_device_count
    /\ SelectionMade => 0 <= selection_id /\ selection_id < physical_device_count

C6_Witness ==
    /\ pc = "selectQueues"
    /\ physical_device_count = 2
    /\ selection_id = 1
    /\ "invalid selection" \in out

\* the indices of the queue families that have a queue and take graphics commands
GraphicsFamilies(props) ==
    {i \in 0..(Len(props) - 1) : props[i + 1].queueCount > 0 /\ props[i + 1].graphics}

\* C7: selectGPU returns true only for a device with a graphics queue family, with
\* the lowest such index; without one it returns false and main exits with -5
C7_GraphicsQueue ==
    [][pc = "selectSearch" /\ pc' # pc =>
        IF GraphicsFamilies(queue_properties) = {}
        THEN returned'["selectGPU"] = "false" /\ exitStatus' = {-5}
        ELSE /\ returned'["selectGPU"] = "true"
             /\ graphics_queue_index' = Min(GraphicsFamilies(queue_properties))]_vars

\* C8: the found layers are the reported layers that are requested, in reported
\* order; instance and device creation get exactly that list; the warning is
\* printed exactly when a requested layer is not among the reported ones
C8_LayerNegotiation ==
    /\ [][pc = "filterLayers" /\ pc' # pc =>
            /\ found_layers' = SelectSeq(instance_layer_names,
                                         LAMBDA n : n \in getRequestedLayerNames)
            /\ ("warning! not all requested layers could be found!" \in out')
                 <=> (getRequestedLayerNames \ Range(instance_layer_names) # {})]_vars
    /\ [](\A i \in CallsOf("vkCreateInstance") \cup CallsOf("vkCreateDevice") :
            calls[i].layers = found_layers)

\* the position in calls of the one call of fn
PositionOf(fn) == CHOOSE i \in CallsOf(fn) : TRUE

\* C9: on the normal exit the logical device is destroyed first, then the debug
\* callback, then the instance, and SDL is shut down last
C9_TeardownOrder ==
    pc = "done" /\ exitStatus = {1} =>
        /\ PositionOf("vkDestroyDevice") < PositionOf("vkDestroyInstance")
        /\ \A i \in CallsOf("vkDestroyDebugReportCallbackEXT") :
            PositionOf("vkDestroyDevice") < i /\ i < PositionOf("vkDestroyInstance")
        /\ PositionOf("vkDestroyInstance") < PositionOf("SDL_Quit")

\* C10: the window given to the extension query is one createWindow produced, and
\* a callback handle given to the driver's destroy function is one a successful
\* registration produced
C10_HandlesCreated ==
    /\ "getAvailableVulkanExtensions" \in Range(started) => window = "window"
    /\ \A i \in CallsOf("vkDestroyDebugReportCallbackEXT") :
        \E j \in Succeeded("vkCreateDebugReportCallbackEXT") :
            j < i /\ calls[j].handle = calls[i].handle

====
